---- MODULE Spec2Model ----
(***************************************************************************)
(* A model of bugzilla2github.py: the XML flattener, the lookup tables and *)
(* their memoizing transformers, the record assembler, the deduplication   *)
(* index, and the import / poll / ledger protocol of one or more runs.     *)
(*                                                                         *)
(* Text is a tuple of pieces (words, "," and " "); the empty tuple stands  *)
(* for both None and "" (the two falsy texts of the source).  Python       *)
(* dictionaries are functions; the empty dictionary is << >>.              *)
(***************************************************************************)
EXTENDS Integers, Sequences, FiniteSets, TLC

VARIABLES
    \* --- XML2dict called on its own
    parent, xmlRet, xmlDone,
    \* --- str2list / str2str called on their own
    maps, lastCall, lastRet, lastWarned, warnCount, firstRet, calls,
    \* --- bugs_convert, one <bug> per step
    xml, pos, issues, tabs, dupErrors, convWarnings, convState,
    \* --- a sequence of runs of main against the remote
    force_update, pc, queue, cur, wait, r, sleeps, gets, ledger,
    job, remoteCount, remoteTotal,
    \* --- history of the runs, read by the properties only
    runs, posts, initLedger, ledgerAtStart, ledgerAtPost, confirmed, exitCause,
    prevOutcome

xmlVars  == <<parent, xmlRet, xmlDone>>
lookVars == <<maps, lastCall, lastRet, lastWarned, warnCount, firstRet, calls>>
convVars == <<xml, pos, issues, tabs, dupErrors, convWarnings, convState>>
procVars == <<force_update, pc, queue, cur, wait, r, sleeps, gets>>
remoteVars == <<job, remoteCount, remoteTotal>>
histVars == <<runs, posts, initLedger, ledgerAtStart, ledgerAtPost, confirmed, exitCause,
              prevOutcome>>
runVars  == <<procVars, ledger, remoteVars, histVars>>
vars == <<xmlVars, lookVars, convVars, runVars>>

(***************************************************************************)
(* Bounds of the model.                                                    *)
(***************************************************************************)
MaxKids == 3
MaxCalls == 4
MaxBugs == 3
MaxRuns == 2
MaxRunBugs == 2
MaxPolls == 3
MaxComments == 3
MaxAttachments == 2

(***************************************************************************)
(* Generic helpers: dictionaries and sequences.                            *)
(***************************************************************************)
EmptyDict == << >>

DictSet(d, k, v) == (k :> v) @@ d

DictDel(d, k) ==
    IF DOMAIN d \ {k} = {} THEN EmptyDict
    ELSE [x \in DOMAIN d \ {k} |-> d[x]]

RECURSIVE JoinText(_)
JoinText(t) == IF t = << >> THEN "" ELSE Head(t) \o JoinText(Tail(t))

RECURSIVE SeqsUpTo(_, _)
SeqsUpTo(n, S) ==
    IF n = 0 THEN {<< >>}
    ELSE LET shorter == SeqsUpTo(n - 1, S)
         IN  shorter \cup {Append(s, e) : s \in {q \in shorter : Len(q) = n - 1}, e \in S}

(***************************************************************************)
(* Values of a flattened record: a text, a nested mapping, or a list.      *)
(***************************************************************************)
TextVal(t) == [kind |-> "text", text |-> t, items |-> << >>, dict |-> EmptyDict]
DictVal(d) == [kind |-> "dict", text |-> << >>, items |-> << >>, dict |-> d]
ListVal(s) == [kind |-> "list", text |-> << >>, items |-> s, dict |-> EmptyDict]

Elem(tag, text, attrs, kids) ==
    [tag |-> tag, text |-> text, attrs |-> attrs, kids |-> kids]

Attr(name, val) == [name |-> name, val |-> val]

(***************************************************************************)
(* XML2dict.                                                               *)
(***************************************************************************)
\* for name, val in key.items(): ret["%s.%s" % (key.tag, name)] = val
RECURSIVE ParseAttributes(_, _, _)
ParseAttributes(ret, tag, attrs) ==
    IF attrs = << >> THEN ret
    ELSE ParseAttributes(DictSet(ret, tag \o "." \o Head(attrs).name,
                                 TextVal(Head(attrs).val)),
                         tag, Tail(attrs))

\* the body of "if key.text:"
StoreValue(ret, tag, val) ==
    IF tag \notin DOMAIN ret THEN DictSet(ret, tag, val)
    ELSE IF ret[tag].kind = "list"
         THEN DictSet(ret, tag, ListVal(Append(ret[tag].items, val)))
         ELSE DictSet(ret, tag, ListVal(<<ret[tag], val>>))

RECURSIVE XML2dict(_)
RECURSIVE XML2dictKids(_, _)

\* one iteration of "for key in parent"
XML2dictKey(ret, key) ==
    LET val  == IF Len(key.kids) > 0 THEN DictVal(XML2dict(key))
                ELSE TextVal(key.text)
        ret1 == IF key.text # << >> THEN StoreValue(ret, key.tag, val) ELSE ret
    IN  ParseAttributes(ret1, key.tag, key.attrs)

\* "for key in parent"; ret is looked at before each child, so that it is
\* computed child by child and not as one nested expression at the end
XML2dictKids(ret, kids) ==
    IF kids = << >> \/ DOMAIN ret = {""} THEN ret
    ELSE XML2dictKids(XML2dictKey(ret, Head(kids)), Tail(kids))

XML2dict(p) == XML2dictKids(EmptyDict, p.kids)

(***************************************************************************)
(* Lookup tables.  A table value is a list of labels, a string (the tuple  *)
(* of its characters), a boolean or None.                                  *)
(***************************************************************************)
ListV(items) == [kind |-> "list", items |-> items, chars |-> << >>, bool |-> FALSE]
StrV(chars)  == [kind |-> "str",  items |-> << >>, chars |-> chars, bool |-> FALSE]
BoolV(b)     == [kind |-> "bool", items |-> << >>, chars |-> << >>, bool |-> b]
NoneV        == [kind |-> "none", items |-> << >>, chars |-> << >>, bool |-> FALSE]

email2login ==
    ("__name__" :> StrV(<<"e","m","a","i","l"," ","t","o"," ","G","i","t","H","u","b",
                          " ","l","o","g","i","n">>))
    @@ ("greensunny12@gmail.com" :> StrV(<<"w","i","l","z","b","a","c","h">>))
    @@ ("greeenify@gmail.com" :> StrV(<<"w","i","l","z","b","a","c","h">>))
    @@ ("andrei@erdani.com" :> StrV(<<"a","n","d","r","a","l","e","x">>))

status2state ==
    ("__name__" :> StrV(<<"s","t","a","t","u","s"," ","t","o"," ","G","i","t","H","u","b",
                          " ","s","t","a","t","e">>))
    @@ ("NEW" :> BoolV(FALSE))
    @@ ("UNCONFIRMED" :> BoolV(FALSE))
    @@ ("CONFIRMED" :> BoolV(FALSE))
    @@ ("VERIFIED" :> BoolV(FALSE))
    @@ ("ASSIGNED" :> BoolV(FALSE))
    @@ ("IN_PROGRESS" :> BoolV(FALSE))
    @@ ("RESOLVED" :> BoolV(TRUE))
    @@ ("CLOSED" :> BoolV(TRUE))
    @@ ("REOPENED" :> BoolV(FALSE))

keywords2labels ==
    ("__name__" :> StrV(<<"k","e","y","w","o","r","d","s"," ","t","o"," ","G","i","t","H",
                          "u","b"," ","l","a","b","e","l","s">>))
    @@ ("compatibility" :> ListV(<<"kind: compatibility">>))
    @@ ("performance" :> ListV(<<"kind: performance">>))
    @@ ("performance, regression" :> ListV(<<"kind: performance", "kind: regression">>))
    @@ ("regression" :> ListV(<<"kind: regression">>))
    @@ ("dll" :> ListV(<<"kind: dll">>))
    @@ ("pull" :> ListV(<<"kind: has pull">>))
    @@ ("accepts-invalid" :> ListV(<<"kind: accepts-invalid">>))
    @@ ("patch" :> ListV(<<"kind: patch">>))
    @@ ("link-failure" :> ListV(<<"kind: link-failure">>))
    @@ ("wrong-code" :> ListV(<<"kind: wrong-code">>))
    @@ ("Optlink" :> ListV(<<"kind: Optlink">>))
    @@ ("mangling" :> ListV(<<"kind: mangling">>))
    @@ ("ice" :> ListV(<<"kind: ice">>))
    @@ ("ice-on-valid-code" :> ListV(<<"kind: ice">>))
    @@ ("bootcamp" :> ListV(<<"kind: bootcamp">>))
    @@ ("rejects-valid" :> ListV(<<"kind: rejects-valid">>))
    @@ ("industry" :> ListV(<<"kind: industry">>))
    @@ ("symdeb" :> ListV(<<"kind: symdeb">>))
    @@ ("SIMD" :> ListV(<<"kind: SIMD">>))
    @@ ("preapproved" :> ListV(<<"kind: preapproved">>))
    @@ ("diagnostic" :> ListV(<<"kind: diagnostic">>))

resolution2labels ==
    ("__name__" :> StrV(<<"r","e","s","o","l","u","t","i","o","n"," ","t","o"," ","G","i",
                          "t","H","u","b"," ","l","a","b","e","l","s">>))
    @@ ("FIXED" :> ListV(<< >>))
    @@ ("DUPLICATE" :> ListV(<<"resolved: duplicate">>))
    @@ ("INVALID" :> ListV(<<"resolved: invalid">>))
    @@ ("MOVED" :> ListV(<<"resolved: moved">>))
    @@ ("WONTFIX" :> ListV(<<"resolved: won't fix">>))
    @@ ("WORKSFORME" :> ListV(<<"resolved: works for me">>))

op_sys2labels ==
    ("__name__" :> StrV(<<"O","p","e","r","a","t","i","n","g"," ","S","y","s","t","e","m",
                          " ","t","o"," ","G","i","t","H","u","b"," ","l","a","b","e","l",
                          "s">>))
    @@ ("Mac OS X" :> ListV(<<"platform: macOS">>))
    @@ ("Windows" :> ListV(<<"platform: Windows">>))
    @@ ("FreeBSD" :> ListV(<<"platform: FreeBSD">>))
    @@ ("Linux" :> ListV(<< >>))
    @@ ("Other" :> ListV(<< >>))
    @@ ("All" :> ListV(<< >>))

\* the module-level tables as the process holds them right after start
InitialTables ==
    [ email2login |-> email2login, status2state |-> status2state,
      keywords2labels |-> keywords2labels, resolution2labels |-> resolution2labels,
      op_sys2labels |-> op_sys2labels ]

TableNames == DOMAIN InitialTables

\* The state keeps, per table, the entries added since the process started;
\* the table the code sees is those on top of the initial ones.
NoMemo == [t \in TableNames |-> EmptyDict]

Tables(memo) == [t \in TableNames |-> memo[t] @@ InitialTables[t]]

MemoOf(tables) ==
    [t \in TableNames |->
        IF DOMAIN tables[t] = DOMAIN InitialTables[t] THEN EmptyDict
        ELSE [k \in DOMAIN tables[t] \ DOMAIN InitialTables[t] |-> tables[t][k]]]

(***************************************************************************)
(* str2list / str2str: the value returned, the table afterwards, and       *)
(* whether the warning was printed.                                        *)
(***************************************************************************)
\* A miss that warns but does not memoize.
str2listNoMemo(map, str) ==
    IF str \notin DOMAIN map
    THEN [ret |-> ListV(<< >>), map |-> map, warned |-> TRUE]
    ELSE [ret |-> map[str], map |-> map, warned |-> FALSE]

str2list(map, str) ==
    IF str \notin DOMAIN map
    THEN [ret |-> ListV(<< >>), map |-> DictSet(map, str, ListV(<< >>)), warned |-> TRUE]
    ELSE [ret |-> map[str], map |-> map, warned |-> FALSE]

str2str(map, str) ==
    IF str \notin DOMAIN map
    THEN [ret |-> NoneV, map |-> DictSet(map, str, NoneV), warned |-> TRUE]
    ELSE [ret |-> map[str], map |-> map, warned |-> FALSE]

\* Python truthiness of a table value
Truthy(v) ==
    CASE v.kind = "list" -> v.items # << >>
      [] v.kind = "str"  -> v.chars # << >>
      [] v.kind = "bool" -> v.bool
      [] OTHER           -> FALSE

(***************************************************************************)
(* Text conversions.                                                       *)
(***************************************************************************)
Digits == {"0", "1", "2", "3", "4", "5", "6", "7", "8", "9"}

DigitVal(c) ==
    CASE c = "0" -> 0 [] c = "1" -> 1 [] c = "2" -> 2 [] c = "3" -> 3 [] c = "4" -> 4
      [] c = "5" -> 5 [] c = "6" -> 6 [] c = "7" -> 7 [] c = "8" -> 8 [] OTHER -> 9

DigitChar(d) ==
    CASE d = 0 -> "0" [] d = 1 -> "1" [] d = 2 -> "2" [] d = 3 -> "3" [] d = 4 -> "4"
      [] d = 5 -> "5" [] d = 6 -> "6" [] d = 7 -> "7" [] d = 8 -> "8" [] OTHER -> "9"

RECURSIVE DigitsValue(_)
DigitsValue(t) ==
    IF t = << >> THEN 0
    ELSE 10 * DigitsValue(SubSeq(t, 1, Len(t) - 1)) + DigitVal(t[Len(t)])

\* str.strip(): leading and trailing blanks removed
RECURSIVE LStrip(_)
LStrip(t) == IF t # << >> /\ Head(t) = " " THEN LStrip(Tail(t)) ELSE t

RECURSIVE RStrip(_)
RStrip(t) ==
    IF t # << >> /\ t[Len(t)] = " " THEN RStrip(SubSeq(t, 1, Len(t) - 1)) ELSE t

Strip(t) == RStrip(LStrip(t))

\* int(s) of a decimal text: blanks around the digits are accepted, anything
\* else raises ValueError
ParseInt(t) ==
    LET d == Strip(t)
    IN  IF d # << >> /\ \A i \in 1..Len(d) : d[i] \in Digits
        THEN [ok |-> TRUE, val |-> DigitsValue(d)]
        ELSE [ok |-> FALSE, val |-> 0]

\* "%d" % n for n >= 0
RECURSIVE FormatInt(_)
FormatInt(n) ==
    IF n < 10 THEN <<DigitChar(n)>>
    ELSE Append(FormatInt(n \div 10), DigitChar(n % 10))

\* str.split(","): always at least one field
RECURSIVE SplitComma(_, _)
SplitComma(t, field) ==
    IF t = << >> THEN <<field>>
    ELSE IF Head(t) = "," THEN <<field>> \o SplitComma(Tail(t), << >>)
         ELSE SplitComma(Tail(t), Append(field, Head(t)))

DatePieces == {"2014-03-01", "2015-12-31"}
TimePieces == {"12:00:00", "23:59:59"}
ZonePieces == {"00", "02", "30"}

\* re.match(r'(\d\d\d\d-\d\d-\d\d) (\d\d:\d\d:\d\d) \+(\d\d)(\d\d)', date)
DateMatches(t) ==
    /\ Len(t) >= 7
    /\ t[1] \in DatePieces /\ t[2] = " " /\ t[3] \in TimePieces /\ t[4] = " "
    /\ t[5] = "+" /\ t[6] \in ZonePieces /\ t[7] \in ZonePieces

date_convert(t) ==
    IF DateMatches(t)
    THEN [ok |-> TRUE, val |-> <<t[1], "T", t[3], "+", t[6], ":", t[7]>>]
    ELSE [ok |-> FALSE, val |-> << >>]

(***************************************************************************)
(* Attachments.  The attachment map keeps Python's insertion order: it is  *)
(* a sequence of (attachid, rendered text) entries with distinct ids.      *)
(***************************************************************************)
IdxHas(idx, id) == \E i \in 1..Len(idx) : idx[i].id = id

IdxGet(idx, id) == idx[CHOOSE i \in 1..Len(idx) : idx[i].id = id].text

\* idx[id] = text: a new id goes last, a known id keeps its place
IdxSet(idx, id, text) ==
    IF IdxHas(idx, id)
    THEN [i \in 1..Len(idx) |-> IF idx[i].id = id THEN [id |-> id, text |-> text]
                                ELSE idx[i]]
    ELSE Append(idx, [id |-> id, text |-> text])

\* the map without the entry of id
IdxDel(idx, id) == SelectSeq(idx, LAMBDA e : e.id # id)

\* the rendered text of an attachment: one line, and a second one for "desc"
AttachmentText(id, filename, type, size, desc, hasDesc) ==
    <<"> Attached file: [">> \o filename
        \o <<"](https://issues.dlang.org/bugfiles/attachment.cgi?id=">> \o id
        \o <<") (">> \o type \o <<", ">> \o size \o <<" bytes)">>
        \o (IF hasDesc THEN <<"\n", "> Description:   ">> \o desc ELSE << >>)

\* attachment_convert(idx, attach); ok = FALSE is an uncaught exception.
\* The fields of the model's attachments are texts.
attachment_convert(idx, attach) ==
    IF attach.kind # "dict" THEN [ok |-> FALSE, idx |-> idx]
    ELSE LET a == attach.dict
         IN  IF ~({"attachid", "filename", "type", "size"} \subseteq DOMAIN a)
                \/ a["attachid"].kind # "text"
                \/ ("desc" \in DOMAIN a /\ a["desc"].kind # "text")
             THEN [ok |-> FALSE, idx |-> idx]
             ELSE [ok |-> TRUE,
                   idx |-> IdxSet(idx, JoinText(a["attachid"].text),
                               AttachmentText(a["attachid"].text, a["filename"].text,
                                   a["type"].text, a["size"].text,
                                   IF "desc" \in DOMAIN a THEN a["desc"].text ELSE << >>,
                                   "desc" \in DOMAIN a))]

RECURSIVE AttachmentsConvertFrom(_, _)
AttachmentsConvertFrom(acc, items) ==
    IF ~acc.ok \/ items = << >> THEN acc
    ELSE AttachmentsConvertFrom(attachment_convert(acc.idx, Head(items)), Tail(items))

attachments_convert(attachments) ==
    IF attachments.kind = "list"
    THEN AttachmentsConvertFrom([ok |-> TRUE, idx |-> << >>], attachments.items)
    ELSE attachment_convert(<< >>, attachments)

(***************************************************************************)
(* Comments.  A comment body is the list of its fragments, joined with     *)
(* "\n" by the source.  In the model's texts an "@", a "#" and the phrase  *)
(* "(In reply to comment #" are pieces of their own, a number is one piece *)
(* per digit, and "bug" is matched as a whole word followed by one blank.  *)
(***************************************************************************)
github_owner == "owner"
github_repo == "repo"

\* the pieces of the model's texts that hold an "@"
AtPieces ==
    {"@", "r@example.org", "andrei@erdani.com", "nobody@example.org", "c@example.org"}

\* the text email_convert returns after the lookup l of the address;
\* name = << >> is None
EmailText(l, email, name) ==
    [ map |-> l.map, warned |-> l.warned,
      text |-> IF Truthy(l.ret) THEN <<"@">> \o l.ret.chars
               ELSE IF name # << >> /\ ~(\E i \in 1..Len(name) : name[i] \in AtPieces)
                    THEN name \o <<" &lt;<">> \o email \o <<">&gt;">>
                    ELSE email ]

\* email_convert(email, name), with the table it looks the address up in
email_convert(map, email, name) == EmailText(str2str(map, JoinText(email)), email, name)

\* str.replace("@", "@ ")
RECURSIVE ReplaceAt(_)
ReplaceAt(t) ==
    IF t = << >> THEN << >>
    ELSE (IF Head(t) = "@" THEN <<"@", " ">> ELSE <<Head(t)>>) \o ReplaceAt(Tail(t))

id_convert(id) ==
    <<"[BZ#">> \o id \o <<"](https://github.com/", github_owner, "/", github_repo,
        "/issues?q=is%3Aissue%20%22Original%20bug%20ID%3A%20BZ%23">> \o id \o <<"%22)">>

\* the number of digits at the head of a text
RECURSIVE LeadingDigits(_)
LeadingDigits(t) ==
    IF t # << >> /\ Head(t) \in Digits THEN 1 + LeadingDigits(Tail(t)) ELSE 0

\* re.sub(r"\(In reply to comment \#\d+\)", "", val)
RECURSIVE DropReplies(_)
DropReplies(t) ==
    IF t = << >> THEN << >>
    ELSE LET n == LeadingDigits(Tail(t))
         IN  IF Head(t) = "(In reply to comment #" /\ n >= 1 /\ Len(t) >= n + 2
                /\ t[n + 2] = ")"
             THEN DropReplies(SubSeq(t, n + 3, Len(t)))
             ELSE <<Head(t)>> \o DropReplies(Tail(t))

BugWords == {"bug", "Bug", "BUG"}

\* re.sub(r"(?i)(bug(?:\s+report)?\s+|feature wish\s+|\s\#)(\d\d?\d?\d?)",
\*        id_convert_from_match, val): the "bug <n>" and " #<n>" alternatives
RECURSIVE BugRefs(_)
BugRefs(t) ==
    IF t = << >> THEN << >>
    ELSE IF Len(t) >= 3 /\ t[3] \in Digits
            /\ ((t[1] \in BugWords /\ t[2] = " ") \/ (t[1] \in {" ", "\n"} /\ t[2] = "#"))
    THEN LET m == LeadingDigits(SubSeq(t, 3, Len(t)))
             n == IF m > 4 THEN 4 ELSE m
         IN  (IF t[2] = "#" THEN <<t[1]>> ELSE <<t[1], t[2]>>)
                 \o id_convert(SubSeq(t, 3, n + 2))
                 \o BugRefs(SubSeq(t, n + 3, Len(t)))
    ELSE <<Head(t)>> \o BugRefs(Tail(t))

\* the "Syntax" loop of comment_convert, on one fragment
SyntaxConvert(t) == BugRefs(DropReplies(t))

\* A comment that always gets the text of the attachment it names: the
\* entry is read but stays in the map.
CommentAttachmentNoPop(c, attachments) ==
    IF "attachid" \notin DOMAIN c THEN [ok |-> TRUE, ret |-> << >>, idx |-> attachments]
    ELSE IF c["attachid"].kind # "text"
    THEN [ok |-> FALSE, ret |-> << >>, idx |-> attachments]
    ELSE LET attachid == JoinText(c["attachid"].text)
         IN  IF IdxHas(attachments, attachid)
             THEN [ok |-> TRUE, ret |-> <<IdxGet(attachments, attachid), << >> >>,
                   idx |-> attachments]
             ELSE [ok |-> TRUE, ret |-> << >>, idx |-> attachments]

\* comment_convert, "Convert attachments if any": the fragments added to the
\* body and the attachment map left; an attachid that is not a text is
\* unhashable (TypeError)
CommentAttachment(c, attachments) ==
    IF "attachid" \notin DOMAIN c THEN [ok |-> TRUE, ret |-> << >>, idx |-> attachments]
    ELSE IF c["attachid"].kind # "text"
    THEN [ok |-> FALSE, ret |-> << >>, idx |-> attachments]
    ELSE LET attachid == JoinText(c["attachid"].text)
         IN  IF IdxHas(attachments, attachid)
             THEN [ok |-> TRUE, ret |-> <<IdxGet(attachments, attachid), << >> >>,
                   idx |-> IdxDel(attachments, attachid)]
             ELSE [ok |-> TRUE, ret |-> << >>, idx |-> attachments]

NoComment == [body |-> << >>, created_at |-> << >>]

\* the process ending inside comment_convert: exit(1) or an uncaught exception
CommentFailed(attachments, map, warned, who) ==
    [ok |-> FALSE, comment |-> NoComment, idx |-> attachments,
     map |-> map, warned |-> warned, who |-> who]

\* the fragments of ret after the "Syntax" loop; attached is what the
\* attachment branch appended
CommentBody(author, text, attached) ==
    LET ret == << <<"Comment author: ">> \o author, << >>, ReplaceAt(text), << >> >>
                   \o attached \o << << >> >>
    IN  [i \in 1..Len(ret) |-> SyntaxConvert(ret[i])]

\* comment_convert from the author line on: e is the result of
\* email_convert, a that of the attachment branch
CommentFrom(c, attachments, e, a) ==
    IF ~a.ok \/ "bug_when" \notin DOMAIN c \/ c["bug_when"].kind # "text"
    THEN CommentFailed(attachments, e.map, e.warned, JoinText(c["who"].text))
    ELSE LET d == date_convert(c["bug_when"].text)
         IN  IF ~d.ok
             THEN CommentFailed(attachments, e.map, e.warned, JoinText(c["who"].text))
             ELSE [ok |-> TRUE,
                   comment |-> [body |-> CommentBody(e.text,
                                             IF "thetext" \in DOMAIN c THEN c["thetext"].text
                                             ELSE <<"*No description provided.*">>,
                                             a.ret),
                                created_at |-> d.val],
                   idx |-> a.idx, map |-> e.map, warned |-> e.warned,
                   who |-> JoinText(c["who"].text)]

\* what comment_convert needs of the comment before it renders anything
CommentReadable(comment) ==
    /\ comment.kind = "dict"
    /\ "commentid" \in DOMAIN comment.dict
    /\ comment.dict["commentid"].kind = "text"
    /\ ParseInt(comment.dict["commentid"].text).ok
    /\ "who" \in DOMAIN comment.dict
    /\ comment.dict["who"].kind = "text"
    /\ ("thetext" \in DOMAIN comment.dict => comment.dict["thetext"].kind = "text")

\* comment_convert(comment, attachments), with the email2login table; ok =
\* FALSE is exit(1) or an uncaught exception
comment_convert(comment, attachments, map) ==
    IF ~CommentReadable(comment) THEN CommentFailed(attachments, map, FALSE, "")
    ELSE CommentFrom(comment.dict, attachments,
             email_convert(map, comment.dict["who"].text,
                 IF "who.name" \in DOMAIN comment.dict THEN comment.dict["who.name"].text
                 ELSE << >>),
             CommentAttachment(comment.dict, attachments))

(***************************************************************************)
(* bug_convert: the conversion of one flattened record, as a chain of      *)
(* stages over a conversion state.  ok = FALSE is the process ending in    *)
(* exit(1) or an uncaught exception.  The body text is not rendered; its   *)
(* pops and table lookups are.                                             *)
(***************************************************************************)
ConvStart(bug, tables) ==
    [ ok |-> TRUE, bug |-> bug, tabs |-> tables, warns |-> << >>,
      number |-> 0, title |-> TextVal(<< >>), created_at |-> << >>,
      closed |-> NoneV, hasAssignee |-> FALSE, assignee |-> NoneV,
      hasClosedAt |-> FALSE, closed_at |-> << >>, labels |-> << >>,
      leftover |-> FALSE, comments |-> << >>, attachments |-> << >> ]

Fail(st) == [st EXCEPT !.ok = FALSE]

HasText(st, field) == field \in DOMAIN st.bug /\ st.bug[field].kind = "text"

Pop(st, field) == [st EXCEPT !.bug = DictDel(@, field)]

Warn(st, table, key, warned) ==
    IF warned THEN Append(st.warns, [table |-> table, key |-> key]) ELSE st.warns

\* ret["number"] = int(bug.pop("bug_id"))
ConvNumber(st) ==
    IF ~st.ok THEN st
    ELSE IF ~HasText(st, "bug_id") THEN Fail(st)
    ELSE LET n == ParseInt(st.bug["bug_id"].text)
         IN  IF ~n.ok THEN Fail(st)
             ELSE [Pop(st, "bug_id") EXCEPT !.number = n.val]

\* ret.append(comment_convert(comment, attachments)): the conversion state
\* after the call returned cc
CommentsAppend(st, cc) ==
    [st EXCEPT !.ok = cc.ok,
               !.comments = IF cc.ok THEN Append(@, cc.comment) ELSE @,
               !.attachments = cc.idx,
               !.tabs.email2login = cc.map,
               !.warns = Warn(st, "email2login", cc.who, cc.warned)]

RECURSIVE CommentsConvertFrom(_, _)
CommentsConvertFrom(st, comments) ==
    IF ~st.ok \/ comments = << >> THEN st
    ELSE CommentsConvertFrom(
             CommentsAppend(st, comment_convert(Head(comments), st.attachments,
                                                st.tabs.email2login)),
             Tail(comments))

\* comments_convert(comments, attachments), over the conversion state
comments_convert(st, comments) ==
    IF comments.kind = "list" THEN CommentsConvertFrom(st, comments.items)
    ELSE CommentsConvertFrom(st, <<comments>>)

\* attachments = attachments_convert(bug.pop("attachment")) if present;
\* ret["comments"].extend(comments_convert(bug.pop("long_desc"), attachments))
ConvComments(st) ==
    IF ~st.ok THEN st
    ELSE LET a == IF "attachment" \in DOMAIN st.bug
                  THEN attachments_convert(st.bug["attachment"])
                  ELSE [ok |-> TRUE, idx |-> << >>]
         IN  IF ~a.ok \/ "long_desc" \notin DOMAIN st.bug THEN Fail(st)
             ELSE comments_convert(
                      [Pop(Pop(st, "attachment"), "long_desc") EXCEPT !.attachments = a.idx],
                      st.bug["long_desc"])

\* ret["title"] = bug.pop("short_desc")
ConvTitle(st) ==
    IF ~st.ok THEN st
    ELSE IF "short_desc" \notin DOMAIN st.bug THEN Fail(st)
    ELSE [Pop(st, "short_desc") EXCEPT !.title = st.bug["short_desc"]]

\* ret["created_at"] = date_convert(bug.pop("creation_ts"))
ConvCreated(st) ==
    IF ~st.ok THEN st
    ELSE IF ~HasText(st, "creation_ts") THEN Fail(st)
    ELSE LET d == date_convert(st.bug["creation_ts"].text)
         IN  IF ~d.ok THEN Fail(st)
             ELSE [Pop(st, "creation_ts") EXCEPT !.created_at = d.val]

\* ret["closed"] = str2str(status2state, bug.pop("bug_status"))
ConvClosed(st) ==
    IF ~st.ok THEN st
    ELSE IF ~HasText(st, "bug_status") THEN Fail(st)
    ELSE LET key == JoinText(st.bug["bug_status"].text)
             l   == str2str(st.tabs.status2state, key)
         IN  [Pop(st, "bug_status") EXCEPT
                 !.closed = l.ret,
                 !.tabs.status2state = l.map,
                 !.warns = Warn(st, "status2state", key, l.warned)]

\* assignee = str2str(email2login, ...); if not ret["closed"] and assignee: ...
ConvAssignee(st) ==
    IF ~st.ok THEN st
    ELSE IF ~HasText(st, "assigned_to") THEN Fail(st)
    ELSE LET key == JoinText(st.bug["assigned_to"].text)
             l   == str2str(st.tabs.email2login, key)
             set == ~Truthy(st.closed) /\ Truthy(l.ret)
         IN  [Pop(st, "assigned_to") EXCEPT
                 !.hasAssignee = set,
                 !.assignee = IF set THEN l.ret ELSE NoneV,
                 !.tabs.email2login = l.map,
                 !.warns = Warn(st, "email2login", key, l.warned)]

\* updated_at = bug.pop("delta_ts"); if ret["closed"]: closed_at = date_convert(...)
ConvClosedAt(st) ==
    IF ~st.ok THEN st
    ELSE IF "delta_ts" \notin DOMAIN st.bug THEN Fail(st)
    ELSE IF ~Truthy(st.closed) THEN Pop(st, "delta_ts")
    ELSE IF st.bug["delta_ts"].kind # "text" THEN Fail(st)
    ELSE LET d == date_convert(st.bug["delta_ts"].text)
         IN  IF ~d.ok THEN Fail(st)
             ELSE [Pop(st, "delta_ts") EXCEPT !.hasClosedAt = TRUE, !.closed_at = d.val]

\* ret["labels"].extend(str2list(map, key)): a list adds its items, a string
\* its characters, anything else raises TypeError
ExtendLabels(st, table, key) ==
    LET l == str2list(st.tabs[table], key)
    IN  IF l.ret.kind \notin {"list", "str"} THEN Fail(st)
        ELSE [st EXCEPT
                 !.labels = @ \o (IF l.ret.kind = "list" THEN l.ret.items ELSE l.ret.chars),
                 !.tabs[table] = l.map,
                 !.warns = Warn(st, table, key, l.warned)]

RECURSIVE ConvKeywordTokens(_, _)
ConvKeywordTokens(st, tokens) ==
    IF ~st.ok \/ tokens = << >> THEN st
    ELSE ConvKeywordTokens(
             ExtendLabels(st, "keywords2labels", JoinText(Strip(Head(tokens)))),
             Tail(tokens))

\* for keyword in bug.pop("keywords","").split(","): ...
ConvKeywords(st) ==
    IF ~st.ok THEN st
    ELSE IF "keywords" \notin DOMAIN st.bug
         THEN ConvKeywordTokens(st, SplitComma(<< >>, << >>))
    ELSE IF st.bug["keywords"].kind # "text" THEN Fail(st)
    ELSE ConvKeywordTokens(Pop(st, "keywords"),
                           SplitComma(st.bug["keywords"].text, << >>))

\* if field in bug: ret["labels"].extend(str2list(table, bug.pop(field)))
ConvLabelField(st, field, table) ==
    IF ~st.ok \/ field \notin DOMAIN st.bug THEN st
    ELSE IF st.bug[field].kind # "text" THEN Fail(st)
    ELSE ExtendLabels(Pop(st, field), table, JoinText(st.bug[field].text))

\* email_convert(email, name): the lookup it makes in email2login
EmailLookup(st, val) ==
    IF ~st.ok THEN st
    ELSE IF val.kind # "text" THEN Fail(st)
    ELSE LET key == JoinText(val.text)
             l   == str2str(st.tabs.email2login, key)
         IN  [st EXCEPT !.tabs.email2login = l.map,
                        !.warns = Warn(st, "email2login", key, l.warned)]

RECURSIVE EmailsLookup(_, _)
EmailsLookup(st, emails) ==
    IF ~st.ok \/ emails = << >> THEN st
    ELSE IF Head(emails).kind = "text"
            /\ JoinText(Head(emails).text) = "github-bugzilla@puremagic.com"
         THEN EmailsLookup(st, Tail(emails))
    ELSE EmailsLookup(EmailLookup(st, Head(emails)), Tail(emails))

\* the bug description: reporter, version and cc
ConvBody(st) ==
    IF ~st.ok THEN st
    ELSE IF "reporter" \notin DOMAIN st.bug THEN Fail(st)
    ELSE LET st1 == EmailLookup(Pop(Pop(st, "reporter"), "reporter.name"),
                                st.bug["reporter"])
         IN  IF ~st1.ok THEN st1
             ELSE IF ~HasText(st1, "version") THEN Fail(st1)
             ELSE LET st2 == Pop(st1, "version")
                  IN  IF "cc" \notin DOMAIN st2.bug THEN st2
                      ELSE IF st2.bug["cc"].kind = "list"
                           THEN EmailsLookup(Pop(st2, "cc"), st2.bug["cc"].items)
                      ELSE EmailLookup(Pop(st2, "cc"), st2.bug["cc"])

bug_unused_fields ==
    { "actual_time", "assigned_to.name", "attachment.isobsolete", "attachment.ispatch",
      "attachment.isprivate", "bug_file_loc", "cclist_accessible", "classification",
      "classification_id", "comment_sort_order", "component", "deadline", "delta_ts",
      "estimated_time", "everconfirmed", "long_desc.isprivate", "priority", "product",
      "remaining_time", "reporter_accessible", "rep_platform", "bug_severity",
      "target_milestone", "token" }

\* fields_ignore(bug, bug_unused_fields); if bug: print the unconverted fields
ConvLeftover(st) ==
    IF ~st.ok THEN st
    ELSE [st EXCEPT !.leftover =
             (DOMAIN st.bug \ (bug_unused_fields
                 \cup {"dup_id", "dependson", "blocked", "see_also"})) # {} ]

\* the lines printed for the attachments no comment consumed: the heading
\* and one line of fields_dump per entry left
UnconvertedAttachments(idx) ==
    <<[table |-> "unconverted attachments", key |-> ""]>>
        \o [i \in 1..Len(idx) |-> [table |-> "unconverted attachments", key |-> idx[i].id]]

\* if attachments: print("WARNING: unconverted attachments:"); fields_dump(...)
ConvAttachmentsLeft(st) ==
    IF ~st.ok \/ st.attachments = << >> THEN st
    ELSE [st EXCEPT !.warns = @ \o UnconvertedAttachments(st.attachments)]

bug_convert(bug, tables) ==
    ConvAttachmentsLeft(ConvLeftover(ConvBody(
        ConvLabelField(
            ConvLabelField(
                ConvKeywords(ConvClosedAt(ConvAssignee(ConvClosed(ConvCreated(ConvTitle(
                    ConvComments(ConvNumber(ConvStart(bug, tables))))))))),
                "resolution", "resolution2labels"),
            "op_sys", "op_sys2labels"))))

\* the issue as bugs_convert stores it, after issue.pop("number")
IssueOf(st) ==
    [ title |-> st.title, created_at |-> st.created_at, closed |-> st.closed,
      hasAssignee |-> st.hasAssignee, assignee |-> st.assignee,
      hasClosedAt |-> st.hasClosedAt, closed_at |-> st.closed_at,
      labels |-> st.labels, comments |-> st.comments ]

(***************************************************************************)
(* Idle values: what each group of variables holds while a specification   *)
(* exercises another group.                                                *)
(***************************************************************************)
IdleXml ==
    /\ parent = Elem("root", << >>, << >>, << >>)
    /\ xmlRet = EmptyDict
    /\ xmlDone = FALSE

(***************************************************************************)
(* XML2dict on its own: a parent drawn from a bounded set of child         *)
(* sequences, flattened in one step.                                       *)
(***************************************************************************)
XmlLeafKids ==
    {Elem(tag, text, << >>, << >>) : tag \in {"a", "b"}, text \in {<< >>, <<"x">>, <<"y">>}}
    \cup { Elem("a", <<"x">>, <<Attr("n", <<"v">>)>>, << >>),
           Elem("b", << >>, <<Attr("n", <<"v">>)>>, << >>),
           Elem("a.n", <<"z">>, << >>, << >>) }

XmlNestedKids ==
    { Elem("a", <<" ">>, << >>, <<Elem("b", <<"x">>, << >>, << >>)>>),
      Elem("a", << >>, << >>, <<Elem("b", <<"x">>, << >>, << >>)>>),
      Elem("b", <<" ">>, << >>, <<Elem("a", <<"x">>, << >>, << >>),
                                   Elem("a", <<"y">>, << >>, << >>)>>) }

XmlParents ==
    {Elem("root", <<" ">>, << >>, kids) : kids \in SeqsUpTo(MaxKids, XmlLeafKids \cup XmlNestedKids)}

InitXml ==
    /\ parent \in XmlParents
    /\ xmlRet = EmptyDict
    /\ xmlDone = FALSE

XML2dictCall ==
    /\ ~xmlDone
    /\ xmlRet' = XML2dict(parent)
    /\ xmlDone' = TRUE
    /\ UNCHANGED parent

(***************************************************************************)
(* str2list / str2str on their own: a bounded sequence of lookups against  *)
(* the module-level tables.                                                *)
(***************************************************************************)
LookupTables == {"op_sys2labels", "email2login"}
LookupKeys == {"Linux", "andrei@erdani.com", "Plan9", "__name__"}
LookupPairs == LookupTables \X LookupKeys

NoCall == [fn |-> "none", table |-> "", key |-> ""]

IdleLookup ==
    /\ maps = NoMemo
    /\ lastCall = NoCall
    /\ lastRet = NoneV
    /\ lastWarned = FALSE
    /\ warnCount = [p \in LookupPairs |-> 0]
    /\ firstRet = << >>
    /\ calls = 0

\* the caller's view of one lookup: l is what the transformer returned
LookupStep(fn, t, k, l) ==
    /\ calls < MaxCalls
    /\ maps' = MemoOf([Tables(maps) EXCEPT ![t] = l.map])
    /\ lastCall' = [fn |-> fn, table |-> t, key |-> k]
    /\ lastRet' = l.ret
    /\ lastWarned' = l.warned
    /\ warnCount' = [warnCount EXCEPT ![<<t, k>>] = @ + (IF l.warned THEN 1 ELSE 0)]
    /\ firstRet' = IF <<t, k>> \in DOMAIN firstRet THEN firstRet
                   ELSE (<<t, k>> :> l.ret) @@ firstRet
    /\ calls' = calls + 1

Str2ListCall ==
    \E t \in LookupTables, k \in LookupKeys :
        LookupStep("str2list", t, k, str2list(Tables(maps)[t], k))

Str2StrCall ==
    \E t \in LookupTables, k \in LookupKeys :
        LookupStep("str2str", t, k, str2str(Tables(maps)[t], k))

(***************************************************************************)
(* bugs_convert.                                                           *)
(***************************************************************************)
ConvertStart(tables) ==
    [ok |-> TRUE, issues |-> EmptyDict, tabs |-> tables, dupErrors |-> << >>,
     warns |-> << >>]

\* The duplicate check with the first record kept instead of the last.
BugsConvertBugFirstWins(acc, xml_bug) ==
    LET st == bug_convert(XML2dict(xml_bug), acc.tabs)
    IN  IF ~st.ok THEN [acc EXCEPT !.ok = FALSE]
        ELSE [acc EXCEPT
                 !.issues = IF st.number \in DOMAIN acc.issues THEN @
                            ELSE DictSet(@, st.number, IssueOf(st)),
                 !.dupErrors = IF st.number \in DOMAIN acc.issues
                               THEN Append(@, st.number) ELSE @,
                 !.tabs = st.tabs,
                 !.warns = @ \o st.warns]

\* one iteration of "for xml_bug in xml_root.iter("bug")"
BugsConvertBug(acc, xml_bug) ==
    LET st == bug_convert(XML2dict(xml_bug), acc.tabs)
    IN  IF ~st.ok THEN [acc EXCEPT !.ok = FALSE]
        ELSE [acc EXCEPT
                 !.issues = DictSet(@, st.number, IssueOf(st)),
                 !.dupErrors = IF st.number \in DOMAIN acc.issues
                               THEN Append(@, st.number) ELSE @,
                 !.tabs = st.tabs,
                 !.warns = @ \o st.warns]

RECURSIVE BugsConvertFrom(_, _)
BugsConvertFrom(acc, bugs) ==
    IF ~acc.ok \/ bugs = << >> THEN acc
    ELSE BugsConvertFrom(BugsConvertBug(acc, Head(bugs)), Tail(bugs))

bugs_convert(bugs, tables) == BugsConvertFrom(ConvertStart(tables), bugs)

(***************************************************************************)
(* The <bug> elements the model draws its input files from.                *)
(***************************************************************************)
Leaf(tag, text) == Elem(tag, text, << >>, << >>)

GoodDate == <<"2014-03-01", " ", "12:00:00", " ", "+", "00", "00">>
LaterDate == <<"2015-12-31", " ", "23:59:59", " ", "+", "02", "30">>
BadDate == <<"2014-03-01", " ", "12:00:00", " ", "-", "05", "00">>

\* The varying content of one <long_desc> and of one <attachment> element.
CommentDesc(who, thetext, attachid) == [who |-> who, thetext |-> thetext, attachid |-> attachid]

AttachmentDesc(attachid, desc) == [attachid |-> attachid, desc |-> desc]

\* The varying content of one <bug> element of the input file: one comment
\* and no attachment unless WithComments says otherwise.
BugDesc(id, title, created, status, assigned, delta, keywords, resolution, op_sys) ==
    [ id |-> id, title |-> title, created |-> created, status |-> status,
      assigned |-> assigned, delta |-> delta, keywords |-> keywords,
      resolution |-> resolution, op_sys |-> op_sys,
      comments |-> <<CommentDesc(<<"r@example.org">>, <<"text">>, << >>)>>,
      attachments |-> << >> ]

WithComments(d, comments, attachments) ==
    [d EXCEPT !.comments = comments, !.attachments = attachments]

\* The <long_desc> element of a comment, the k-th of its bug.
CommentElem(c, k, created) ==
    Elem("long_desc", <<" ">>, <<Attr("isprivate", <<"0">>)>>,
         << Leaf("commentid", FormatInt(k)),
            Leaf("comment_count", FormatInt(k - 1)),
            Leaf("attachid", c.attachid),
            Elem("who", c.who, <<Attr("name", <<"R">>)>>, << >>),
            Leaf("bug_when", created),
            Leaf("thetext", c.thetext) >>)

\* The <attachment> element of an attachment.
AttachmentElem(a) ==
    Elem("attachment", <<" ">>,
         <<Attr("isobsolete", <<"0">>), Attr("ispatch", <<"0">>), Attr("isprivate", <<"0">>)>>,
         << Leaf("attachid", a.attachid),
            Leaf("date", GoodDate),
            Leaf("delta_ts", GoodDate),
            Leaf("desc", a.desc),
            Leaf("filename", <<"fix.d">>),
            Leaf("type", <<"text/plain">>),
            Leaf("size", <<"1", "0">>),
            Elem("attacher", <<"r@example.org">>, <<Attr("name", <<"R">>)>>, << >>) >>)

\* The <bug> element of a description, as Bugzilla exports it.
BugElem(d) ==
    Elem("bug", <<" ">>, << >>,
         << Leaf("bug_id", d.id),
            Leaf("creation_ts", d.created),
            Leaf("short_desc", d.title),
            Leaf("delta_ts", d.delta),
            Leaf("reporter_accessible", <<"1">>),
            Leaf("product", <<"D">>),
            Leaf("component", <<"tools">>),
            Leaf("version", <<"D2">>),
            Leaf("op_sys", d.op_sys),
            Leaf("bug_status", d.status),
            Leaf("resolution", d.resolution),
            Leaf("keywords", d.keywords),
            Elem("reporter", <<"r@example.org">>, <<Attr("name", <<"R">>)>>, << >>),
            Elem("assigned_to", d.assigned, <<Attr("name", <<"A">>)>>, << >>) >>
         \o [k \in 1..Len(d.comments) |-> CommentElem(d.comments[k], k, d.created)]
         \o [k \in 1..Len(d.attachments) |-> AttachmentElem(d.attachments[k])])

\* xml_root.iter("bug"): the <bug> elements of a file, in document order
XmlBugs(file) == [i \in 1..Len(file) |-> BugElem(file[i])]

SimpleBugs ==
    { BugDesc(id, title, created, <<"NEW">>, <<"nobody@example.org">>, LaterDate,
              << >>, << >>, <<"Linux">>) :
        id \in {<<"3">>, <<"1", "2">>}, title \in {<<"a">>, <<"b">>},
        created \in {GoodDate, BadDate} }

RichBugs ==
    { BugDesc(<<"3">>, <<"a">>, GoodDate, status, assigned, delta, keywords, resolution,
              op_sys) :
        status \in {<<"NEW">>, <<"RESOLVED">>, <<"WEIRD">>},
        assigned \in {<<"andrei@erdani.com">>, <<"nobody@example.org">>},
        delta \in {LaterDate, BadDate},
        keywords \in { << >>, <<"ice">>, <<"ice", ",", " ", "pull">>,
                       <<"performance", ",", " ", "regression">>,
                       <<"zzz", ",", "ice", ",", " ", "zzz">>, <<"__name__">> },
        resolution \in {<< >>, <<"FIXED">>, <<"INVALID">>, <<"BOGUS">>},
        op_sys \in {<<"Linux">>, <<"Mac", " ", "OS", " ", "X">>, <<"Plan9">>} }

CommentDescs ==
    { CommentDesc(<<"r@example.org">>, <<"text">>, attachid) :
        attachid \in {<< >>, <<"5">>, <<"6">>} }

AttachmentDescs ==
    { AttachmentDesc(<<"5">>, << >>), AttachmentDesc(<<"6">>, << >>),
      AttachmentDesc(<<"5">>, <<"for", " ", "bug", " ", "9">>) }

\* bugs with up to MaxComments comments and up to MaxAttachments attachments
AttachBugs ==
    { WithComments(BugDesc(<<"3">>, <<"a">>, GoodDate, <<"NEW">>, <<"nobody@example.org">>,
                           LaterDate, << >>, << >>, <<"Linux">>),
                   comments, attachments) :
        comments \in SeqsUpTo(MaxComments, CommentDescs) \ {<< >>},
        attachments \in SeqsUpTo(MaxAttachments, AttachmentDescs) }

\* bugs whose comments exercise the text conversions
TextBugs ==
    { WithComments(BugDesc(<<"3">>, <<"a">>, GoodDate, <<"NEW">>, <<"nobody@example.org">>,
                           LaterDate, << >>, << >>, <<"Linux">>),
                   <<CommentDesc(who, thetext, <<"5">>)>>, <<AttachmentDesc(<<"5">>, << >>)>>) :
        who \in {<<"andrei@erdani.com">>, <<"c@example.org">>},
        thetext \in { << >>, <<"see", " ", "Bug", " ", "1", "2", "3", "4", "5", " ", "#", "7">>,
                      <<"(In reply to comment #", "1", ")", "\n", "cc", " ", "@", "x">> } }

\* bugs whose status or assignee is the key the tables keep their title under
StateBugs ==
    { BugDesc(<<"3">>, <<"a">>, GoodDate, status, assigned, LaterDate, << >>, << >>,
              <<"Linux">>) :
        status \in {<<"NEW">>, <<"RESOLVED">>, <<"__name__">>},
        assigned \in {<<"andrei@erdani.com">>, <<"__name__">>} }

XmlFiles ==
    SeqsUpTo(MaxBugs, SimpleBugs)
    \cup {<<b>> : b \in RichBugs \cup AttachBugs \cup TextBugs \cup StateBugs}

(***************************************************************************)
(* bugs_convert, one <bug> element per step.                               *)
(***************************************************************************)
IdleConvert ==
    /\ xml = << >>
    /\ pos = 1
    /\ issues = EmptyDict
    /\ tabs = NoMemo
    /\ dupErrors = << >>
    /\ convWarnings = << >>
    /\ convState = "idle"

InitConvert ==
    /\ xml \in XmlFiles
    /\ pos = 1
    /\ issues = EmptyDict
    /\ tabs = NoMemo
    /\ dupErrors = << >>
    /\ convWarnings = << >>
    /\ convState = "converting"

BugsConvertStep ==
    /\ convState = "converting"
    /\ pos <= Len(xml)
    /\ LET acc == BugsConvertBug(
                      [ok |-> TRUE, issues |-> issues, tabs |-> Tables(tabs),
                       dupErrors |-> dupErrors, warns |-> convWarnings],
                      BugElem(xml[pos]))
       IN  /\ convState' = IF acc.ok THEN "converting" ELSE "aborted"
           /\ issues' = acc.issues
           /\ tabs' = MemoOf(acc.tabs)
           /\ dupErrors' = acc.dupErrors
           /\ convWarnings' = acc.warns
           /\ pos' = IF acc.ok THEN pos + 1 ELSE pos
    /\ UNCHANGED xml

BugsConvertReturn ==
    /\ convState = "converting"
    /\ pos > Len(xml)
    /\ convState' = "done"
    /\ UNCHANGED <<xml, pos, issues, tabs, dupErrors, convWarnings>>

(***************************************************************************)
(* The progress ledger: a file of lines "%d, %s\n", read back with         *)
(* csv.reader.  A line is the tuple of its characters, without the "\n".   *)
(***************************************************************************)
NoLedger == [exists |-> FALSE, lines |-> << >>]

\* f.write("%d, %s\n" % (bugzilla_id, issue_number))
LedgerLine(bugzilla_id, issue_number) ==
    FormatInt(bugzilla_id) \o <<",", " ">> \o issue_number

\* open("bugzilla2github.log", "a"): the file is created when it is missing
LedgerAppend(file, line) == [exists |-> TRUE, lines |-> Append(file.lines, line)]

\* imported_bug[0]: the characters before the first comma
RECURSIVE FirstColumn(_)
FirstColumn(line) ==
    IF line = << >> \/ Head(line) = "," THEN << >>
    ELSE <<Head(line)>> \o FirstColumn(Tail(line))

\* imported_bug[1] popped instead of imported_bug[0]
RECURSIVE SecondColumn(_)
SecondColumn(line) ==
    IF line = << >> THEN << >>
    ELSE IF Head(line) = "," THEN Tail(line)
    ELSE SecondColumn(Tail(line))

RECURSIVE LedgerFilterSecondColumn(_, _)
LedgerFilterSecondColumn(iss, lines) ==
    IF lines = << >> THEN [ok |-> TRUE, issues |-> iss]
    ELSE IF Head(lines) = << >> THEN [ok |-> FALSE, issues |-> iss]
    ELSE LET id == ParseInt(SecondColumn(Head(lines)))
         IN  IF ~id.ok THEN [ok |-> FALSE, issues |-> iss]
             ELSE LedgerFilterSecondColumn(DictDel(iss, id.val), Tail(lines))

\* for imported_bug in csv.reader(f): issues.pop(int(imported_bug[0]), None)
\* A blank line reads as an empty row (IndexError), a first column that is
\* no number raises ValueError: neither is caught.
RECURSIVE LedgerFilter(_, _)
LedgerFilter(iss, lines) ==
    IF lines = << >> THEN [ok |-> TRUE, issues |-> iss]
    ELSE IF Head(lines) = << >> THEN [ok |-> FALSE, issues |-> iss]
    ELSE LET id == ParseInt(FirstColumn(Head(lines)))
         IN  IF ~id.ok THEN [ok |-> FALSE, issues |-> iss]
             ELSE LedgerFilter(DictDel(iss, id.val), Tail(lines))

\* the source IDs a ledger file names in its first column
LedgerIds(file) ==
    {ParseInt(FirstColumn(file.lines[i])).val : i \in 1..Len(file.lines)}

(***************************************************************************)
(* github_issues_add / github_issue_append.                                *)
(***************************************************************************)
\* a set of source IDs in ascending order
RECURSIVE SortedIds(_)
SortedIds(S) ==
    IF S = {} THEN << >>
    ELSE LET m == CHOOSE x \in S : \A y \in S : x <= y
         IN  <<m>> \o SortedIds(S \ {m})

\* The loop left after its first issue (a "break" ending the loop body).
IssuesQueueFirstOnly(iss) ==
    IF DOMAIN iss = {} THEN << >> ELSE <<SortedIds(DOMAIN iss)[1]>>

\* The issues visited from the highest source ID down (a reversed sort).
IssuesQueueDescending(iss) ==
    LET s == SortedIds(DOMAIN iss)
    IN  [i \in 1..Len(s) |-> s[Len(s) + 1 - i]]

\* sorted(issues.items(), key=lambda a: a[0]): the source IDs in the order
\* github_issues_add visits them
IssuesQueue(iss) == SortedIds(DOMAIN iss)

\* The delay grown by one instead of doubled.
NextWaitPlusOne(w) == w + 1

\* wait = 2 * wait
NextWait(w) == 2 * w

NoResponse == [set |-> FALSE, ok |-> FALSE, status |-> "", url_ok |-> FALSE, number |-> << >>]

\* while not r or r.json()["status"] == "pending"
LoopCondition(resp) == ~resp.set \/ ~resp.ok \/ resp.status = "pending"

\* A status other than "imported" reported but the run carried on.
ImportOutcomeNoExit(resp) ==
    IF resp.status # "imported" THEN [exit |-> FALSE, append |-> FALSE, cause |-> ""]
    ELSE IF ~resp.url_ok THEN [exit |-> TRUE, append |-> FALSE, cause |-> "parse"]
    ELSE [exit |-> FALSE, append |-> TRUE, cause |-> ""]

\* The ledger line written whatever the status says.
ImportOutcomeNoStatusCheck(resp) ==
    IF resp.status = "imported" /\ ~resp.url_ok
    THEN [exit |-> TRUE, append |-> FALSE, cause |-> "parse"]
    ELSE [exit |-> FALSE, append |-> TRUE, cause |-> ""]

\* what follows the poll loop: exit(1) on a status other than "imported",
\* AttributeError on result.group(1) when the issue URL does not match,
\* the ledger append otherwise
ImportOutcome(resp) ==
    IF resp.status # "imported" THEN [exit |-> TRUE, append |-> FALSE, cause |-> "status"]
    ELSE IF ~resp.url_ok THEN [exit |-> TRUE, append |-> FALSE, cause |-> "parse"]
    ELSE [exit |-> FALSE, append |-> TRUE, cause |-> ""]

\* github_post: the request is sent only under force_update; otherwise the
\* notice is printed unless it was before, and True is returned
github_post(force, warn) ==
    IF force THEN [sent |-> TRUE, printed |-> FALSE, warn |-> warn]
    ELSE [sent |-> FALSE, printed |-> ~warn, warn |-> TRUE]

(***************************************************************************)
(* Runs of main against the remote.  One process at a time; a process that *)
(* ended (normally, by exit(1) or an uncaught exception, or killed from    *)
(* outside) may be followed by a new run on the same XML file and the      *)
(* ledger file as the last run left it.                                    *)
(***************************************************************************)
RunIds == {3, 12}

RunBugs ==
    { BugDesc(id, <<"a">>, GoodDate, <<"NEW">>, <<"nobody@example.org">>, LaterDate,
              << >>, << >>, <<"Linux">>) : id \in {<<"3">>, <<"1", "2">>} }

RunXmlFiles ==
    SeqsUpTo(MaxRunBugs, RunBugs)
    \cup { << BugDesc(<<"3">>, <<"a">>, BadDate, <<"NEW">>, <<"nobody@example.org">>,
                      LaterDate, << >>, << >>, <<"Linux">>) >> }

\* the ledger before the first run: none, or one left by an earlier migration
InitialLedgers ==
    { NoLedger, [exists |-> TRUE, lines |-> <<LedgerLine(12, <<"7">>)>>] }

NoJob == [id |-> 0, status |-> "none", number |-> 0]

IdleRun ==
    /\ force_update = FALSE
    /\ pc = "off"
    /\ queue = << >>
    /\ cur = 0
    /\ wait = 0
    /\ r = NoResponse
    /\ sleeps = << >>
    /\ gets = 0
    /\ ledger = NoLedger
    /\ job = NoJob
    /\ remoteCount = [i \in RunIds |-> 0]
    /\ remoteTotal = 0
    /\ runs = 0
    /\ posts = << >>
    /\ initLedger = NoLedger
    /\ ledgerAtStart = NoLedger
    /\ ledgerAtPost = NoLedger
    /\ confirmed = {}
    /\ exitCause = ""
    /\ prevOutcome = "none"

InitRun ==
    /\ xml \in RunXmlFiles
    /\ pos = 1
    /\ issues = EmptyDict
    /\ tabs = NoMemo
    /\ dupErrors = << >>
    /\ convWarnings = << >>
    /\ convState = "idle"
    /\ force_update \in BOOLEAN
    /\ pc = "start"
    /\ queue = << >>
    /\ cur = 0
    /\ wait = 0
    /\ r = NoResponse
    /\ sleeps = << >>
    /\ gets = 0
    /\ ledger \in InitialLedgers
    /\ job = NoJob
    /\ remoteCount = [i \in RunIds |-> 0]
    /\ remoteTotal = 0
    /\ runs = 1
    /\ posts = << >>
    /\ initLedger = ledger
    /\ ledgerAtStart = ledger
    /\ ledgerAtPost = ledger
    /\ confirmed = {}
    /\ exitCause = ""
    /\ prevOutcome = "none"

Running == {"start", "converted", "adding", "loop", "get"}
Ended == {"done", "exited", "killed"}

\* main: args_parse, the XML parse and bugs_convert
MainConvert ==
    /\ pc = "start"
    /\ LET acc == bugs_convert(XmlBugs(xml), Tables(tabs))
       IN  /\ issues' = acc.issues
           /\ tabs' = MemoOf(acc.tabs)
           /\ dupErrors' = acc.dupErrors
           /\ convWarnings' = acc.warns
           /\ pc' = IF acc.ok THEN "converted" ELSE "exited"
           /\ exitCause' = IF acc.ok THEN exitCause ELSE "convert"
    /\ UNCHANGED <<xml, pos, convState, force_update, queue, cur, wait, r, sleeps, gets,
                   ledger, remoteVars, runs, posts, initLedger, ledgerAtStart,
                   ledgerAtPost, confirmed, prevOutcome, xmlVars, lookVars>>

\* main: the ledger read, then github_issues_add up to its sort
MainLedger ==
    /\ pc = "converted"
    /\ LET f == IF ledger.exists THEN LedgerFilter(issues, ledger.lines)
                ELSE [ok |-> TRUE, issues |-> issues]
       IN  /\ issues' = f.issues
           /\ pc' = IF f.ok THEN "adding" ELSE "exited"
           /\ queue' = IF f.ok THEN IssuesQueue(f.issues) ELSE << >>
           /\ exitCause' = IF f.ok THEN exitCause ELSE "ledger"
    /\ UNCHANGED <<xml, pos, tabs, dupErrors, convWarnings, convState, force_update, cur,
                   wait, r, sleeps, gets, ledger, remoteVars, runs, posts, initLedger,
                   ledgerAtStart, ledgerAtPost, confirmed, prevOutcome, xmlVars, lookVars>>

\* github_issue_append up to the poll loop: the import POST, which the
\* remote accepts (a pending job) or rejects (exit(1))
IssuePost ==
    /\ pc = "adding"
    /\ queue # << >>
    /\ cur' = Head(queue)
    /\ queue' = Tail(queue)
    /\ posts' = Append(posts, Head(queue))
    /\ ledgerAtPost' = ledger
    /\ \E accepted \in BOOLEAN :
          IF accepted
          THEN /\ job' = [id |-> Head(queue), status |-> "pending", number |-> 0]
               /\ pc' = "loop"
               /\ wait' = 1
               /\ r' = NoResponse
               /\ sleeps' = << >>
               /\ gets' = 0
               /\ UNCHANGED exitCause
          ELSE /\ pc' = "exited"
               /\ exitCause' = "post"
               /\ UNCHANGED <<job, wait, r, sleeps, gets>>
    /\ UNCHANGED <<convVars, force_update, ledger, remoteCount, remoteTotal, runs,
                   initLedger, ledgerAtStart, confirmed, prevOutcome, xmlVars, lookVars>>

\* github_issues_add: the loop is over, main returns
IssuesAddReturn ==
    /\ pc = "adding"
    /\ queue = << >>
    /\ pc' = "done"
    /\ UNCHANGED <<convVars, force_update, queue, cur, wait, r, sleeps, gets, ledger,
                   remoteVars, histVars, xmlVars, lookVars>>

\* time.sleep(wait); wait = 2 * wait
PollSleep ==
    /\ pc = "loop"
    /\ LoopCondition(r)
    /\ Len(sleeps) < MaxPolls
    /\ sleeps' = Append(sleeps, wait)
    /\ wait' = NextWait(wait)
    /\ pc' = "get"
    /\ UNCHANGED <<convVars, force_update, queue, cur, r, gets, ledger, remoteVars,
                   histVars, xmlVars, lookVars>>

\* r = requests.get(u, ...): an error response, or the job's status
PollGet ==
    /\ pc = "get"
    /\ \E ok \in BOOLEAN, url_ok \in BOOLEAN :
          /\ r' = IF ~ok THEN [NoResponse EXCEPT !.set = TRUE]
                  ELSE IF job.status # "imported"
                  THEN [set |-> TRUE, ok |-> TRUE, status |-> job.status,
                        url_ok |-> FALSE, number |-> << >>]
                  ELSE [set |-> TRUE, ok |-> TRUE, status |-> "imported",
                        url_ok |-> url_ok, number |-> FormatInt(job.number)]
          /\ confirmed' = IF ok /\ job.status = "imported"
                          THEN confirmed \cup {<<cur, FormatInt(job.number)>>}
                          ELSE confirmed
    /\ gets' = gets + 1
    /\ pc' = "loop"
    /\ UNCHANGED <<convVars, force_update, queue, cur, wait, sleeps, ledger, remoteVars,
                   runs, posts, initLedger, ledgerAtStart, ledgerAtPost, exitCause,
                   prevOutcome, xmlVars, lookVars>>

\* github_issue_append after the loop: the status check, the issue number,
\* the ledger line, and the return to github_issues_add
IssueFinish ==
    /\ pc = "loop"
    /\ ~LoopCondition(r)
    /\ LET o == ImportOutcome(r)
       IN  /\ pc' = IF o.exit THEN "exited" ELSE "adding"
           /\ exitCause' = IF o.exit THEN o.cause ELSE exitCause
           /\ ledger' = IF o.append THEN LedgerAppend(ledger, LedgerLine(cur, r.number))
                        ELSE ledger
    /\ UNCHANGED <<convVars, force_update, queue, cur, wait, r, sleeps, gets, remoteVars,
                   runs, posts, initLedger, ledgerAtStart, ledgerAtPost, confirmed,
                   prevOutcome, xmlVars, lookVars>>

\* the remote ends the pending import job: the issue is created, or not
RemoteFinish ==
    /\ job.status = "pending"
    /\ \E outcome \in {"imported", "failed"} :
          IF outcome = "imported"
          THEN /\ job' = [job EXCEPT !.status = "imported", !.number = remoteTotal + 1]
               /\ remoteTotal' = remoteTotal + 1
               /\ remoteCount' = [remoteCount EXCEPT ![job.id] = @ + 1]
          ELSE /\ job' = [job EXCEPT !.status = "failed"]
               /\ UNCHANGED <<remoteCount, remoteTotal>>
    /\ UNCHANGED <<convVars, procVars, ledger, histVars, xmlVars, lookVars>>

\* the process is terminated from outside, wherever it is
Kill ==
    /\ pc \in Running
    /\ pc' = "killed"
    /\ queue' = << >>
    /\ cur' = 0
    /\ wait' = 0
    /\ r' = NoResponse
    /\ sleeps' = << >>
    /\ gets' = 0
    /\ issues' = EmptyDict
    /\ tabs' = NoMemo
    /\ dupErrors' = << >>
    /\ convWarnings' = << >>
    /\ UNCHANGED <<xml, pos, convState, force_update, ledger, remoteVars, histVars,
                   xmlVars, lookVars>>

\* the script is started again: a fresh process, the same files
Restart ==
    /\ pc \in Ended
    /\ runs < MaxRuns
    /\ force_update' \in BOOLEAN
    /\ pc' = "start"
    /\ queue' = << >>
    /\ cur' = 0
    /\ wait' = 0
    /\ r' = NoResponse
    /\ sleeps' = << >>
    /\ gets' = 0
    /\ issues' = EmptyDict
    /\ tabs' = NoMemo
    /\ dupErrors' = << >>
    /\ convWarnings' = << >>
    /\ runs' = runs + 1
    /\ posts' = << >>
    /\ ledgerAtStart' = ledger
    /\ ledgerAtPost' = ledger
    /\ exitCause' = ""
    /\ prevOutcome' = pc
    /\ UNCHANGED <<xml, pos, convState, ledger, remoteVars, initLedger, confirmed,
                   xmlVars, lookVars>>

(***************************************************************************)
(* Specifications.                                                         *)
(***************************************************************************)
Init == IdleXml /\ IdleLookup /\ InitRun

Next ==
    \/ MainConvert
    \/ MainLedger
    \/ IssuePost
    \/ IssuesAddReturn
    \/ PollSleep
    \/ PollGet
    \/ IssueFinish
    \/ RemoteFinish
    \/ Kill
    \/ Restart

Spec == Init /\ [][Next]_vars

\* a process that is not killed goes on executing
FairSpec == Spec /\ WF_vars(IssueFinish)

InitXmlOnly == InitXml /\ IdleLookup /\ IdleConvert /\ IdleRun

NextXml == XML2dictCall /\ UNCHANGED <<lookVars, convVars, runVars>>

SpecXml == InitXmlOnly /\ [][NextXml]_vars

InitLookup == IdleXml /\ IdleLookup /\ IdleConvert /\ IdleRun

NextLookup ==
    \/ Str2ListCall /\ UNCHANGED <<xmlVars, convVars, runVars>>
    \/ Str2StrCall /\ UNCHANGED <<xmlVars, convVars, runVars>>

SpecLookup == InitLookup /\ [][NextLookup]_vars

InitConvertOnly == IdleXml /\ IdleLookup /\ InitConvert /\ IdleRun

NextConvert ==
    \/ BugsConvertStep /\ UNCHANGED <<xmlVars, lookVars, runVars>>
    \/ BugsConvertReturn /\ UNCHANGED <<xmlVars, lookVars, runVars>>

SpecConvert == InitConvertOnly /\ [][NextConvert]_vars

(***************************************************************************)
(* Properties.                                                             *)
(***************************************************************************)
Range(seq) == {seq[i] : i \in 1..Len(seq)}

\* the source IDs of the <bug> elements of an input file, read off the input
DescId(d) == ParseInt(d.id).val
XmlIds(file) == {DescId(file[i]) : i \in 1..Len(file)}

\* the ledger lines written since the first run started / this run started
AppendedSince(file) == SubSeq(ledger.lines, Len(file.lines) + 1, Len(ledger.lines))

LinePair(line) == <<ParseInt(FirstColumn(line)).val, Strip(SecondColumn(line))>>

\* C1: every (sourceID, newID) line github_issue_append has appended to the
\* ledger is one a status poll reported "imported" for, and the ledger only
\* ever changes by the append of the current source ID's line in a step
\* taken on an "imported" response whose issue URL parsed: never before the
\* confirmation, never after a rejected POST, another terminal status or an
\* unparsable issue URL.
C1_AppendedConfirmed ==
    \A i \in 1..Len(AppendedSince(initLedger)) :
        LinePair(AppendedSince(initLedger)[i]) \in confirmed

C1_AppendStep ==
    ledger' # ledger =>
        /\ pc = "loop" /\ r.set /\ r.ok /\ r.status = "imported" /\ r.url_ok
        /\ <<cur, r.number>> \in confirmed
        /\ ledger' = LedgerAppend(ledger, LedgerLine(cur, r.number))

C1_LedgerOnlyAfterConfirmation == []C1_AppendedConfirmed /\ [][C1_AppendStep]_vars

\* a line has been appended in this run, and a later issue is being polled
C1_Witness ==
    /\ Len(AppendedSince(ledgerAtStart)) >= 1
    /\ pc = "loop"
    /\ r.set /\ r.ok /\ r.status = "failed"

\* C2: once the ledger was read, no source ID named in the first column of a
\* line of the ledger found at startup is pending, none is submitted in the
\* run, forced or not, and a run that follows a run that completed submits
\* nothing.
C2_LedgerIdsNotResubmitted ==
    /\ pc \in {"adding", "loop", "get", "done"} =>
           DOMAIN issues \cap LedgerIds(ledgerAtStart) = {}
    /\ Range(posts) \cap LedgerIds(ledgerAtStart) = {}
    /\ prevOutcome = "done" => posts = << >>

\* a forced run that found a ledger naming a source ID of its file, and has
\* submitted another one
C2_Witness ==
    /\ force_update
    /\ LedgerIds(ledgerAtStart) \cap XmlIds(xml) # {}
    /\ posts # << >>
    /\ pc = "done"

\* C3: a run without -f sends no write request to the remote.
C3_DryRunSendsNothing == ~force_update => posts = << >>

\* the source IDs the remote confirmed but the ledger does not name
LostIds == {id \in RunIds : (\E p \in confirmed : p[1] = id) /\ id \notin LedgerIds(ledger)}

\* C4: a source ID whose import the remote confirmed but whose ledger line
\* was never written is pending again when a following run starts adding
\* issues, and a run that completes has submitted every source ID the ledger
\* it found did not name; when a run completes, every source ID of the file
\* is named by the ledger of before the first run or has been imported at
\* least once.
C4_AtLeastOnce ==
    /\ (pc = "adding" /\ posts = << >>) => (LostIds \cap XmlIds(xml)) \subseteq Range(queue)
    /\ pc = "done" =>
           \A id \in XmlIds(xml) :
               /\ id \in LedgerIds(initLedger) \/ remoteCount[id] >= 1
               /\ id \notin LedgerIds(ledgerAtStart) => id \in Range(posts)

\* a run has completed and the remote holds two issues for one source ID
C4_Witness == pc = "done" /\ \E id \in RunIds : remoteCount[id] >= 2

\* C7: a run that ended on a rejected POST, a terminal status other than
\* "imported" or an unparsable issue URL has written no ledger line since the
\* failing POST, its last POST is the failing one, the lines of before are
\* still there; the failure ends the process in the very step that meets it,
\* and an ended process changes nothing.
C7_AfterFatal ==
    (pc = "exited" /\ exitCause \in {"post", "status", "parse"}) =>
        /\ ledger = ledgerAtPost
        /\ posts # << >> /\ posts[Len(posts)] = cur
        /\ cur \notin {LinePair(l)[1] : l \in Range(AppendedSince(ledgerAtStart))}
        /\ SubSeq(ledger.lines, 1, Len(ledgerAtStart.lines)) = ledgerAtStart.lines

C7_FatalStep ==
    /\ (pc = "loop" /\ ~LoopCondition(r) /\ (r.status # "imported" \/ ~r.url_ok)) =>
           (pc' \in {"loop", "exited", "killed"} /\ posts' = posts /\ ledger' = ledger)
    /\ (exitCause' # exitCause /\ exitCause' # "") => pc' = "exited"
    /\ pc \in Ended => (ledger' = ledger /\ pc' \in {pc, "start"})
    /\ (pc \in Ended /\ pc' = pc) => posts' = posts

C7_FatalFailureStops == []C7_AfterFatal /\ [][C7_FatalStep]_vars

\* the second issue of a run failed on its issue URL after the first was
\* recorded
C7_Witness ==
    /\ pc = "exited" /\ exitCause = "parse"
    /\ Len(posts) = 2
    /\ Len(AppendedSince(ledgerAtStart)) = 1

\* C10: the k-th sleep of a call lasts 2^(k-1) and comes before the k-th
\* status request; while the last response is an error or says "pending" the
\* call only sleeps and asks again; the loop is left on a response with
\* another status, with the ledger append when that status is "imported"
\* and the issue URL parsed, with the end of the process otherwise; and once
\* such a response is in, the loop is left.
C10_Delays ==
    /\ \A k \in 1..Len(sleeps) : sleeps[k] = 2 ^ (k - 1)
    /\ pc = "get" => Len(sleeps) = gets + 1
    /\ pc = "loop" => Len(sleeps) = gets

C10_LoopStep ==
    /\ (pc = "loop" /\ LoopCondition(r) /\ pc' # pc) => pc' \in {"get", "killed"}
    /\ (pc = "get" /\ pc' # pc) => pc' \in {"loop", "killed"}
    /\ (pc = "loop" /\ pc' \in {"adding", "exited", "done"}) =>
           r.set /\ r.ok /\ r.status # "pending"

C10_AmendedEnd ==
    (pc = "loop" /\ pc' \in {"adding", "exited", "done"}) =>
        IF r.status = "imported" /\ r.url_ok
        THEN pc' = "adding" /\ ledger' = LedgerAppend(ledger, LedgerLine(cur, r.number))
        ELSE pc' = "exited" /\ ledger' = ledger

C10_OriginalEnd ==
    (pc = "loop" /\ pc' \in {"adding", "exited", "done"}) =>
        IF r.status = "imported"
        THEN pc' = "adding" /\ ledger' = LedgerAppend(ledger, LedgerLine(cur, r.number))
        ELSE pc' = "exited" /\ ledger' = ledger

C10_LoopEnds == (pc = "loop" /\ ~LoopCondition(r)) ~> (pc \notin {"loop", "get"})

C10_PollLoop ==
    []C10_Delays /\ [][C10_LoopStep /\ C10_AmendedEnd]_vars /\ C10_LoopEnds

\* C10 as stated: the loop ends with the ledger append whenever the status
\* is "imported".
C10_AsStated ==
    []C10_Delays /\ [][C10_LoopStep /\ C10_OriginalEnd]_vars

\* three polls, the last one "imported", and the line written
C10_Witness ==
    /\ pc = "adding"
    /\ sleeps = <<1, 2, 4>>
    /\ r.status = "imported"
    /\ Len(AppendedSince(ledgerAtPost)) = 1

\* the records bugs_convert has been through
Converted == pos - 1

Occurrences(file, n, id) == {i \in 1..n : DescId(file[i]) = id}

LastOccurrence(file, n, id) ==
    CHOOSE i \in Occurrences(file, n, id) : \A j \in Occurrences(file, n, id) : j <= i

\* a record bug_convert converts when it is the only one of its file
Convertible(d) == bug_convert(XML2dict(BugElem(d)), InitialTables).ok

\* C5: over the records converted so far the index has exactly one entry per
\* distinct source ID, the entry of an ID is the issue bug_convert makes of
\* its last occurrence, one duplicate error was printed per occurrence of an
\* ID after its first, and bugs_convert stops early only on a record that
\* does not convert by itself, never on a duplicate.
C5_LastWins ==
    /\ convState = "aborted" => ~Convertible(xml[pos])
    /\ convState \in {"converting", "done"} =>
        /\ DOMAIN issues = XmlIds(SubSeq(xml, 1, Converted))
        /\ \A id \in DOMAIN issues :
               /\ issues[id] = IssueOf(bug_convert(
                      XML2dict(BugElem(xml[LastOccurrence(xml, Converted, id)])),
                      InitialTables))
               /\ Cardinality({k \in 1..Len(dupErrors) : dupErrors[k] = id})
                      = Cardinality(Occurrences(xml, Converted, id)) - 1
        /\ Range(dupErrors) \subseteq DOMAIN issues
    /\ convState = "done" => Converted = Len(xml)

\* three records of one source ID, the first and the last with different
\* titles, all converted
C5_Witness ==
    /\ convState = "done"
    /\ Len(xml) = 3
    /\ Len(dupErrors) = 2 /\ dupErrors[1] = dupErrors[2]
    /\ xml[1].title # xml[3].title

\* the lookups of a (table, value) pair made so far
Looked == DOMAIN firstRet

Sentinel(fn) == IF fn = "str2list" THEN ListV(<< >>) ELSE NoneV

\* C6: a lookup of a value the table holds prints nothing, leaves the tables
\* alone and returns the table's value; the first lookup of a value the table
\* does not hold prints one warning and returns the sentinel of the function
\* called; every later lookup of it prints nothing and returns what the
\* first one returned; a value is warned about at most once.
C6_LookupStep ==
    calls' = calls + 1 =>
        LET c == lastCall'
            pair == <<c.table, c.key>>
        IN  IF c.key \in DOMAIN InitialTables[c.table]
            THEN /\ ~lastWarned'
                 /\ maps' = maps
                 /\ lastRet' = InitialTables[c.table][c.key]
                 /\ warnCount'[pair] = 0
            ELSE IF pair \notin Looked
            THEN /\ lastWarned'
                 /\ lastRet' = Sentinel(c.fn)
                 /\ warnCount'[pair] = 1
            ELSE /\ ~lastWarned'
                 /\ lastRet' = firstRet[pair]
                 /\ warnCount'[pair] = 1

C6_WarnOnce == [][C6_LookupStep]_vars

\* a value missing from a table, looked up again by the other function: no
\* warning, and the first sentinel back
C6_Witness ==
    /\ lastCall.fn = "str2list"
    /\ lastCall.key \notin DOMAIN InitialTables[lastCall.table]
    /\ ~lastWarned
    /\ lastRet = NoneV
    /\ warnCount[<<lastCall.table, lastCall.key>>] = 1

\* the value a child element stands for
KidValue(key) ==
    IF Len(key.kids) > 0 THEN DictVal(XML2dict(key)) ELSE TextVal(key.text)

\* the values of the children of one tag, in document order
RECURSIVE KidValues(_, _)
KidValues(kids, tag) ==
    IF kids = << >> THEN << >>
    ELSE (IF Head(kids).tag = tag THEN <<KidValue(Head(kids))>> ELSE << >>)
         \o KidValues(Tail(kids), tag)

KidTags(p) == {p.kids[i].tag : i \in 1..Len(p.kids)}

\* C8: once XML2dict has returned, every tag among the children is a key of
\* the result; a tag that occurs once maps to the value of its child (the
\* text of a leaf, the mapping of an element with children), a tag that
\* occurs n >= 2 times to the list of its n values in document order; no
\* child's value is missing.
C8_EveryChildContributes ==
    xmlDone => \A tag \in KidTags(parent) :
        /\ tag \in DOMAIN xmlRet
        /\ xmlRet[tag] = IF Len(KidValues(parent.kids, tag)) = 1
                         THEN KidValues(parent.kids, tag)[1]
                         ELSE ListVal(KidValues(parent.kids, tag))

\* the label strings of the three label tables
LabelTables == {"keywords2labels", "resolution2labels", "op_sys2labels"}

TaxonomyLabels ==
    UNION { UNION {Range(InitialTables[t][k].items) : k \in DOMAIN InitialTables[t]} :
              t \in LabelTables }

\* C9: every label of every converted issue is a label string of the tables.
C9_LabelsFromTaxonomy ==
    \A id \in DOMAIN issues : Range(issues[id].labels) \subseteq TaxonomyLabels

\* the attachids of the <attachment> elements of a record, and the attachid
\* its k-th comment names ("" when it names none)
AttIds(d) == {JoinText(d.attachments[i].attachid) : i \in 1..Len(d.attachments)}

Named(d, k) == JoinText(d.comments[k].attachid)

\* the k-th comment is the first, in source order, to name an attachment
FirstNaming(d, k) ==
    /\ Named(d, k) \in AttIds(d)
    /\ \A j \in 1..(k - 1) : Named(d, j) # Named(d, k)

\* the attachments of a record that no comment names
Unreferenced(d) == AttIds(d) \ {Named(d, k) : k \in 1..Len(d.comments)}

\* the text attachments_convert keeps for an attachid: the last one rendered
RenderedFor(d, id) ==
    LET i == CHOOSE i \in 1..Len(d.attachments) :
                 /\ JoinText(d.attachments[i].attachid) = id
                 /\ \A j \in (i + 1)..Len(d.attachments) :
                        JoinText(d.attachments[j].attachid) # id
    IN  AttachmentText(d.attachments[i].attachid, <<"fix.d">>, <<"text/plain">>,
                       <<"1", "0">>, d.attachments[i].desc, d.attachments[i].desc # << >>)

\* the attachment fragments in the body of a converted comment
AttachedIn(comment) ==
    {i \in 1..Len(comment.body) :
        comment.body[i] # << >> /\ Head(comment.body[i]) = "> Attached file: ["}

RECURSIVE LeftOver(_, _)
LeftOver(file, n) ==
    IF n = 0 THEN 0 ELSE LeftOver(file, n - 1) + Cardinality(Unreferenced(file[n]))

\* the lines of the "unconverted attachments" warnings printed so far
WarningHeads ==
    {k \in 1..Len(convWarnings) :
        convWarnings[k].table = "unconverted attachments" /\ convWarnings[k].key = ""}

WarningLines ==
    {k \in 1..Len(convWarnings) :
        convWarnings[k].table = "unconverted attachments" /\ convWarnings[k].key # ""}

\* C11: in every converted issue, the k-th comment holds an attachment text
\* exactly when it is the first comment of its record to name an attachment
\* of the record, it then holds one such text, the one rendered for that
\* attachid; so a later comment naming the same attachid holds none and the
\* text of an attachid is in at most one comment.  The "unconverted
\* attachments" warning has been printed once per converted record with an
\* attachment no comment names, with one line per such attachment, and for
\* no other record.
C11_AttachmentOnce ==
    convState \in {"converting", "done"} =>
        /\ \A id \in DOMAIN issues :
               LET d == xml[LastOccurrence(xml, Converted, id)]
                   cs == issues[id].comments
               IN  /\ Len(cs) = Len(d.comments)
                   /\ \A k \in 1..Len(cs) :
                          IF FirstNaming(d, k)
                          THEN /\ Cardinality(AttachedIn(cs[k])) = 1
                               /\ \A i \in AttachedIn(cs[k]) :
                                      cs[k].body[i] = SyntaxConvert(RenderedFor(d, Named(d, k)))
                          ELSE AttachedIn(cs[k]) = {}
                   /\ \A a \in AttIds(d) :
                          Cardinality({k \in 1..Len(cs) :
                              \E i \in AttachedIn(cs[k]) :
                                  cs[k].body[i] = SyntaxConvert(RenderedFor(d, a))}) <= 1
        /\ Cardinality(WarningHeads)
               = Cardinality({i \in 1..Converted : Unreferenced(xml[i]) # {}})
        /\ Cardinality(WarningLines) = LeftOver(xml, Converted)

\* a record with two attachments whose first two comments name the same one:
\* the first holds its text, the second does not, and the warning is printed
\* for the other attachment
C11_Witness ==
    /\ convState = "done"
    /\ Len(xml) = 1
    /\ Len(xml[1].comments) >= 2
    /\ Named(xml[1], 1) \in AttIds(xml[1])
    /\ Named(xml[1], 2) = Named(xml[1], 1)
    /\ \E id \in DOMAIN issues :
           /\ AttachedIn(issues[id].comments[1]) # {}
           /\ AttachedIn(issues[id].comments[2]) = {}
    /\ Cardinality(WarningHeads) = 1

\* the source IDs of the ledger lines written since this run started, in the
\* order of the file
AppendedIds ==
    [i \in 1..Len(AppendedSince(ledgerAtStart)) |->
        LinePair(AppendedSince(ledgerAtStart)[i])[1]]

Ascending(seq) == \A i \in 1..Len(seq) : \A j \in (i + 1)..Len(seq) : seq[i] < seq[j]

\* C12, at every moment of a run: the source IDs submitted so far are in
\* strictly ascending order (so none twice), the ledger lines written in the
\* run name, in the same order, the IDs submitted, all of them or all but
\* the last one, whose import is then still under way.
C12_InOrder ==
    /\ Ascending(posts)
    /\ Ascending(AppendedIds)
    /\ \/ AppendedIds = posts
       \/ /\ posts # << >>
          /\ AppendedIds = SubSeq(posts, 1, Len(posts) - 1)
          /\ pc \in {"loop", "get", "exited", "killed"}

\* C12, at every import POST of a run: the ID submitted is pending and is
\* the lowest one pending; if it is not the first of the run, the import of
\* the ID submitted before it was confirmed by the remote, is over on the
\* remote, and its line is the last line of the ledger.
C12_PostStep ==
    (posts' # posts /\ posts' # << >>) =>
        /\ posts' = Append(posts, cur')
        /\ cur' \in DOMAIN issues
        /\ \A id \in DOMAIN issues : id \notin Range(posts) => cur' <= id
        /\ posts # << >> =>
               /\ job.id = posts[Len(posts)] /\ job.status = "imported"
               /\ <<posts[Len(posts)], FormatInt(job.number)>> \in confirmed
               /\ ledger.lines # << >>
               /\ ledger.lines[Len(ledger.lines)]
                      = LedgerLine(posts[Len(posts)], FormatInt(job.number))

C12_Sequential == []C12_InOrder /\ [][C12_PostStep]_vars

\* a run over a file that lists bug 12 before bug 3 has completed with both
\* imported, 3 first
C12_Witness ==
    /\ pc = "done"
    /\ Len(xml) = 2 /\ DescId(xml[1]) > DescId(xml[2])
    /\ posts = <<3, 12>>
    /\ AppendedIds = <<3, 12>>

\* the addresses email2login maps to a login
LoginEmails == DOMAIN email2login \ {"__name__"}

\* C13: every converted issue carries an assignee only if its closed flag is
\* not true and the assigned_to of its record is an address email2login
\* maps to a login, that login being the assignee; it carries a closed_at if
\* and only if its closed flag is true; and it never carries both.
C13_AssigneeOrClosedAt ==
    convState \in {"converting", "done"} =>
        \A id \in DOMAIN issues :
            LET d == xml[LastOccurrence(xml, Converted, id)]
                issue == issues[id]
            IN  /\ issue.hasAssignee =>
                       /\ issue.closed # BoolV(TRUE)
                       /\ JoinText(d.assigned) \in LoginEmails
                       /\ issue.assignee = email2login[JoinText(d.assigned)]
                /\ issue.hasClosedAt <=> issue.closed = BoolV(TRUE)
                /\ ~(issue.hasAssignee /\ issue.hasClosedAt)

====
